---- MODULE Spec2Model ----
(***************************************************************************)
(* Model of vedirect_m8: the VE.Direct text-protocol decoder               *)
(* (Vedirect.input_read / init_data_read) and the single-block read loop   *)
(* (Vedirect.get_serial_packet / read_data_single), and of the controller  *)
(* built on them (VedirectController.read_data_callback with its search    *)
(* for the serial port, wait_or_search_serial_connection).                 *)
(*                                                                         *)
(* Python values are modelled as follows.                                  *)
(*  - An argument of input_read is a record [t, v]: t is the Python type   *)
(*    ("bytes", "str" or "int") and v the sequence of its byte values /    *)
(*    code points (for an int, the one-element sequence of its value).     *)
(*  - A str held by the decoder (key, value) is the sequence of its code   *)
(*    points.                                                              *)
(*  - The dict held by the decoder is a set of records [k, v] with at most *)
(*    one record per key.                                                  *)
(*  - What a call gives back is a record [kind, block]: kind is "none",    *)
(*    "block", or the name of the exception that left the call.            *)
(***************************************************************************)
EXTENDS Integers, Sequences, FiniteSets, TLC

VARIABLES
    \* decoder fields (vedirect.py 63-67)
    state, key, value, bytes_sum, dict,
    \* serial line: bytes the device has sent and the port has not yet read
    wire,
    \* last call of input_read: decoder before it, its argument, its result
    pre, arg, ret,
    \* bookkeeping of the environment and history of the run
    nops, fsum, resetDue, cur, lastFrame, corrupt, lastOp,
    \* scripted streams
    script, stream, pos, pass, emits1, emits2, resetAt, errs,
    \* read_data_single
    clock, rs_pc, rs_timeout, rs_now, rs_tim, rs_out, rs_reads, ser_open, narr,
    \* the serial ports of the host, and the controller's settings
    plist, steady, has_com, has_test, conf_timeout,
    \* the transport: port it is attached to, live read timeout, device there
    cur_port, ser_timeout, link,
    \* VedirectController.read_data_callback
    cb_pc, cb_now, cb_tim, cb_i, cb_max, cb_timeout, cb_conn, cb_out,
    cb_calls, cb_it, cb_anchor, cb_nsearch,
    \* VedirectController.wait_or_search_serial_connection
    rc_pc, rc_caller, rc_now, rc_tim, rc_timeout, rc_idx, rc_out, rc_ready,
    rc_open0, rc_opened, rc_data, rc_fresh, probe_pre, probe_fed,
    \* the controller object, the ports left open by connection objects it
    \* has dropped, and the last call of its constructor or of a setter
    life, stale, op

decVars == <<state, key, value, bytes_sum, dict>>
callVars == <<pre, arg, ret>>
histVars == <<nops, fsum, resetDue, cur, lastFrame, corrupt, lastOp>>
streamVars == <<script, stream, pos, pass, emits1, emits2, resetAt, errs>>
readVars == <<clock, rs_pc, rs_timeout, rs_now, rs_tim, rs_out, rs_reads, ser_open, narr>>
rsVars == <<rs_pc, rs_timeout, rs_now, rs_tim, rs_out, rs_reads>>
envVars == <<plist, steady, has_com, has_test, conf_timeout>>
portVars == <<cur_port, ser_timeout, link>>
cbVars == <<cb_pc, cb_now, cb_tim, cb_i, cb_max, cb_timeout, cb_conn, cb_out,
            cb_calls, cb_it, cb_anchor, cb_nsearch>>
rcVars == <<rc_pc, rc_caller, rc_now, rc_tim, rc_timeout, rc_idx, rc_out,
            rc_ready, rc_open0, rc_opened, rc_data, rc_fresh, probe_pre,
            probe_fed>>
confVars == <<life, stale, op>>
ctlVars == <<envVars, portVars, cbVars, rcVars, confVars>>
vars == <<decVars, wire, callVars, histVars, streamVars, readVars, ctlVars>>

-----------------------------------------------------------------------------
(* Byte constants and decoder states *)

header1 == 13
header2 == 10
hexmarker == 58
delimiter == 9

HEX == 0
WAIT_HEADER == 1
IN_KEY == 2
IN_VALUE == 3
IN_CHECKSUM == 4

\* the str 'Checksum'
ChecksumKey == <<67, 104, 101, 99, 107, 115, 117, 109>>

-----------------------------------------------------------------------------
(* Python primitives used by input_read *)

PyBytes(s) == [t |-> "bytes", v |-> s]
PyStr(s) == [t |-> "str", v |-> s]
PyInt(n) == [t |-> "int", v |-> <<n>>]

\* ord(x): defined for a str or bytes of length one, TypeError otherwise
OrdOk(x) == x.t \in {"bytes", "str"} /\ Len(x.v) = 1
Ord(x) == x.v[1]

\* x == n for an int n: a bytes or str object never equals an int
PyEqInt(x, n) == x.t = "int" /\ x.v = <<n>>

\* x.decode('ascii'): a str has no decode (AttributeError); bytes decode
\* when every byte is below 128 (UnicodeDecodeError otherwise)
DecodeErr(x) ==
    IF x.t # "bytes" THEN "AttributeError"
    ELSE IF \E i \in 1..Len(x.v) : x.v[i] >= 128 THEN "UnicodeDecodeError"
    ELSE "ok"

\* d[k] = v on a dict
DictSet(d, k, v) == {p \in d : p.k # k} \cup {[k |-> k, v |-> v]}

None == [kind |-> "none", block |-> {}]
Block(d) == [kind |-> "block", block |-> d]
Raise(e) == [kind |-> e, block |-> {}]

-----------------------------------------------------------------------------
(* The decoder *)

Dec == [state |-> state, key |-> key, value |-> value,
        bytes_sum |-> bytes_sum, dict |-> dict]

\* Vedirect.__init__, lines 63-67
InitDec == [state |-> WAIT_HEADER, key |-> <<>>, value |-> <<>>,
            bytes_sum |-> 0, dict |-> {}]

\* a reset that leaves the dict as it is
init_data_read_keeps_dict(d) ==
    [d EXCEPT !.key = <<>>, !.value = <<>>, !.bytes_sum = 0,
              !.state = WAIT_HEADER]

\* Vedirect.init_data_read
init_data_read(d) ==
    [d EXCEPT !.key = <<>>, !.value = <<>>, !.bytes_sum = 0,
              !.state = WAIT_HEADER, !.dict = {}]

\* line 256-257: the HEX escape test
hex_escape(d, byte) == PyEqInt(byte, hexmarker) /\ d.state # IN_CHECKSUM

\* a checksum test that looks at seven bits only
checksum_ok_7bit(sum) == sum % 128 = 0

\* line 290: the checksum test
checksum_ok(sum) == sum % 256 = 0

\* a checksum branch that zeroes bytes_sum only when the checksum is good
in_checksum_keeps_sum(d, nbyte) ==
    LET s == d.bytes_sum + nbyte
        d1 == [d EXCEPT !.key = <<>>, !.value = <<>>, !.state = WAIT_HEADER]
    IN  IF checksum_ok(s)
        THEN [d |-> [d1 EXCEPT !.bytes_sum = 0], ret |-> Block(d1.dict)]
        ELSE [d |-> [d1 EXCEPT !.bytes_sum = s], ret |-> None]

\* lines 285-294: the byte consumed in IN_CHECKSUM
in_checksum(d, nbyte) ==
    LET s == d.bytes_sum + nbyte
        d1 == [d EXCEPT !.key = <<>>, !.value = <<>>, !.state = WAIT_HEADER,
                        !.bytes_sum = 0]
    IN  IF checksum_ok(s)
        THEN [d |-> d1, ret |-> Block(d1.dict)]
        ELSE [d |-> d1, ret |-> None]

\* an IN_VALUE branch that leaves key and value in place at the end of a line
in_value_keeps_buffers(d, byte, nbyte) ==
    LET d1 == [d EXCEPT !.bytes_sum = @ + nbyte]
    IN  IF nbyte = header1
        THEN [d |-> [d1 EXCEPT !.state = WAIT_HEADER,
                               !.dict = DictSet(d.dict, d.key, d.value)],
              ret |-> None]
        ELSE IF DecodeErr(byte) # "ok"
        THEN [d |-> d1, ret |-> Raise(DecodeErr(byte))]
        ELSE [d |-> [d1 EXCEPT !.value = @ \o byte.v], ret |-> None]

\* lines 275-284: the byte consumed in IN_VALUE
in_value(d, byte, nbyte) ==
    LET d1 == [d EXCEPT !.bytes_sum = @ + nbyte]
    IN  IF nbyte = header1
        THEN [d |-> [d1 EXCEPT !.state = WAIT_HEADER,
                               !.dict = DictSet(d.dict, d.key, d.value),
                               !.key = <<>>, !.value = <<>>],
              ret |-> None]
        ELSE IF DecodeErr(byte) # "ok"
        THEN [d |-> d1, ret |-> Raise(DecodeErr(byte))]
        ELSE [d |-> [d1 EXCEPT !.value = @ \o byte.v], ret |-> None]

\* an IN_KEY branch that takes every TAB as the start of a value
in_key_no_checksum(d, byte, nbyte) ==
    LET d1 == [d EXCEPT !.bytes_sum = @ + nbyte]
    IN  IF nbyte = delimiter
        THEN [d |-> [d1 EXCEPT !.state = IN_VALUE], ret |-> None]
        ELSE IF DecodeErr(byte) # "ok"
        THEN [d |-> d1, ret |-> Raise(DecodeErr(byte))]
        ELSE [d |-> [d1 EXCEPT !.key = @ \o byte.v], ret |-> None]

\* lines 265-274: the byte consumed in IN_KEY
in_key(d, byte, nbyte) ==
    LET d1 == [d EXCEPT !.bytes_sum = @ + nbyte]
    IN  IF nbyte = delimiter
        THEN [d |-> [d1 EXCEPT !.state = IF d.key = ChecksumKey
                                         THEN IN_CHECKSUM ELSE IN_VALUE],
              ret |-> None]
        ELSE IF DecodeErr(byte) # "ok"
        THEN [d |-> d1, ret |-> Raise(DecodeErr(byte))]
        ELSE [d |-> [d1 EXCEPT !.key = @ \o byte.v], ret |-> None]

\* a WAIT_HEADER branch that leaves the byte out of bytes_sum
wait_header_unsummed(d, nbyte) ==
    [d |-> IF nbyte = header1 THEN [d EXCEPT !.state = WAIT_HEADER]
           ELSE IF nbyte = header2 THEN [d EXCEPT !.state = IN_KEY]
           ELSE d,
     ret |-> None]

\* lines 258-264: the byte consumed in WAIT_HEADER
wait_header(d, nbyte) ==
    LET d1 == [d EXCEPT !.bytes_sum = @ + nbyte]
    IN  [d |-> IF nbyte = header1 THEN [d1 EXCEPT !.state = WAIT_HEADER]
               ELSE IF nbyte = header2 THEN [d1 EXCEPT !.state = IN_KEY]
               ELSE d1,
         ret |-> None]

\* lines 295-298: the byte consumed in HEX
in_hex(d, nbyte) ==
    [d |-> [d EXCEPT !.bytes_sum = 0,
                     !.state = IF nbyte = header2 THEN WAIT_HEADER ELSE HEX],
     ret |-> None]

\* lines 255-300: the body of the try block of input_read
input_read_try(d, byte) ==
    IF ~OrdOk(byte) THEN [d |-> d, ret |-> Raise("TypeError")]
    ELSE
    LET nbyte == Ord(byte)
        d0 == IF hex_escape(d, byte) THEN [d EXCEPT !.state = HEX] ELSE d
    IN  CASE d0.state = WAIT_HEADER -> wait_header(d0, nbyte)
          [] d0.state = IN_KEY -> in_key(d0, byte, nbyte)
          [] d0.state = IN_VALUE -> in_value(d0, byte, nbyte)
          [] d0.state = IN_CHECKSUM -> in_checksum(d0, nbyte)
          [] d0.state = HEX -> in_hex(d0, nbyte)
          [] OTHER -> [d |-> d0, ret |-> Raise("AssertionError")]

\* an except clause that lets the original exception through
wrap_exception_none(r) == r

\* lines 301-305: every Exception leaves input_read as InputReadException
wrap_exception(r) ==
    IF r.kind \in {"none", "block"} THEN r ELSE Raise("InputRead")

\* Vedirect.input_read
input_read(d, byte) ==
    LET r == input_read_try(d, byte)
    IN  [d |-> r.d, ret |-> wrap_exception(r.ret)]

-----------------------------------------------------------------------------
(* Byte streams of the VE.Direct text protocol *)

RECURSIVE SumSeq(_)
SumSeq(s) == IF s = <<>> THEN 0 ELSE Head(s) + SumSeq(Tail(s))

RECURSIVE Flatten(_)
Flatten(ss) == IF ss = <<>> THEN <<>> ELSE Head(ss) \o Flatten(Tail(ss))

\* the byte that brings a running sum to 0 modulo 256
Balance(sum) == (256 - (sum % 256)) % 256

\* one line of a frame: CR LF key TAB value
Line(k, v) == <<header1, header2>> \o k \o <<delimiter>> \o v

\* a frame up to and including the TAB after 'Checksum'
FrameBody(pairs) ==
    Flatten([i \in 1..Len(pairs) |-> Line(pairs[i][1], pairs[i][2])])
        \o <<header1, header2>> \o ChecksumKey \o <<delimiter>>

\* a frame whose checksum byte is off by delta (delta = 0: a valid frame)
Frame(pairs, delta) ==
    LET body == FrameBody(pairs)
    IN  body \o <<(Balance(SumSeq(body)) + delta) % 256>>

\* the key/value pairs a frame carries, as a dict
RECURSIVE PairsDict(_)
PairsDict(pairs) ==
    IF pairs = <<>> THEN {}
    ELSE DictSet(PairsDict(SubSeq(pairs, 1, Len(pairs) - 1)),
                 pairs[Len(pairs)][1], pairs[Len(pairs)][2])

sPID == <<80, 73, 68>>
s0x203 == <<48, 120, 50, 48, 51>>
sV == <<86>>
s12800 == <<49, 50, 56, 48, 48>>

\* the frame contents used as inputs
FramePairs ==
    { <<<<sPID, s0x203>>>>,
      <<<<sV, s12800>>>>,
      <<>> }

\* a HEX message: ':' 'A' 'B' 'C' 'D' 'E' 'F' LF
HexMsg == <<hexmarker, 65, 66, 67, 68, 69, 70, header2>>

\* single bytes fed out of frame: CR, LF, TAB, ':', 'A' and a non-ASCII byte
LooseBytes == {header1, header2, delimiter, hexmarker, 65, 200}

\* a frame cut in the middle of a value: CR LF 'PID' TAB '0x2'
CutFrame == Line(sPID, SubSeq(s0x203, 1, 3))

\* arguments of input_read that are not one byte
BadArgs ==
    { PyBytes(<<>>), PyBytes(<<65, 66>>), PyStr(<<104, 101, 108, 108, 111>>),
      PyInt(hexmarker) }

\* a one-character str
CharArgs == { PyStr(<<65>>), PyStr(<<hexmarker>>) }

-----------------------------------------------------------------------------
(* Bounds *)

MaxOps == 3
MaxFrames == 2

-----------------------------------------------------------------------------
(* History of a run, kept beside the decoder to state the properties *)

\* the pair committed by a call, if any: a CR consumed in IN_VALUE
Commits(d, byte) == OrdOk(byte) /\ d.state = IN_VALUE /\ Ord(byte) = header1

\* the call consumed the checksum byte of a frame
EndsFrame(d, byte) == OrdOk(byte) /\ d.state = IN_CHECKSUM

HistInit ==
    /\ nops = 0
    /\ fsum = 0 /\ resetDue = FALSE
    /\ cur = {} /\ lastFrame = {} /\ corrupt = {}
    /\ lastOp = "init"

\* bookkeeping of one call input_read(byte) made with the decoder at d,
\* r being what the call gave
HistCall(d, byte, r) ==
    /\ fsum' = IF ~OrdOk(byte) THEN fsum
               ELSE (IF resetDue THEN 0 ELSE fsum) + Ord(byte)
    /\ resetDue' = IF ~OrdOk(byte) THEN resetDue
                   ELSE (d.state \in {IN_CHECKSUM, HEX} \/ r.d.state = HEX)
    /\ cur' = IF Commits(d, byte) THEN DictSet(cur, d.key, d.value)
              ELSE IF EndsFrame(d, byte) THEN {}
              ELSE cur
    /\ lastFrame' = IF EndsFrame(d, byte) THEN cur ELSE lastFrame
    /\ corrupt' = IF EndsFrame(d, byte) /\ (d.bytes_sum + Ord(byte)) % 256 # 0
                  THEN corrupt \cup cur ELSE corrupt
    /\ lastOp' = "feed"

HistReset ==
    /\ fsum' = 0 /\ resetDue' = FALSE
    /\ cur' = {} /\ lastFrame' = {} /\ corrupt' = {}
    /\ lastOp' = "reset"

SetDec(d) ==
    /\ state' = d.state /\ key' = d.key /\ value' = d.value
    /\ bytes_sum' = d.bytes_sum /\ dict' = d.dict

DecIs(d) ==
    /\ state = d.state /\ key = d.key /\ value = d.value
    /\ bytes_sum = d.bytes_sum /\ dict = d.dict

StreamIdle ==
    /\ script = [kind |-> "none"]
    /\ stream = <<>> /\ pos = 0 /\ pass = 0
    /\ emits1 = <<>> /\ emits2 = <<>> /\ resetAt = 0 /\ errs = 0

ReadIdle ==
    /\ clock = 0 /\ rs_pc = "idle" /\ rs_timeout = 0 /\ rs_now = 0 /\ rs_tim = 0
    /\ rs_out = None /\ rs_reads = 0 /\ ser_open = FALSE /\ narr = 0

\* no call of the constructor or of a setter has been made; had tells
\* whether the controller had serial tests when the call was made
NoTests == [t |-> "None", items |-> {}]
NoOp == [name |-> "none", port |-> "", tests |-> NoTests, had |-> FALSE,
         out |-> None]

CtlIdle ==
    /\ plist = <<>> /\ steady = FALSE /\ has_com = TRUE /\ has_test = FALSE
    /\ conf_timeout = 0 /\ cur_port = "" /\ ser_timeout = 0 /\ link = TRUE
    /\ cb_pc = "idle" /\ cb_now = 0 /\ cb_tim = 0 /\ cb_i = 0
    /\ cb_max = [set |-> FALSE, n |-> 0] /\ cb_timeout = 0 /\ cb_conn = 0
    /\ cb_out = None /\ cb_calls = <<>>
    /\ cb_it = [kind |-> "none", el |-> 0] /\ cb_anchor = 0
    /\ cb_nsearch = 0
    /\ rc_pc = "idle" /\ rc_caller = "" /\ rc_now = 0 /\ rc_tim = 0
    /\ rc_timeout = 0 /\ rc_idx = 0 /\ rc_out = None /\ rc_ready = FALSE
    /\ rc_open0 = FALSE /\ rc_opened = FALSE /\ rc_data = None /\ rc_fresh = {}
    /\ probe_pre = InitDec /\ probe_fed = 0
    /\ life = "none" /\ stale = {} /\ op = NoOp

-----------------------------------------------------------------------------
(* Spec: a caller feeding the decoder directly *)

Segments ==
    {Frame(p, 0) : p \in FramePairs} \cup {Frame(p, 1) : p \in FramePairs}
        \cup {<<b>> : b \in LooseBytes}
        \cup {ChecksumKey, HexMsg, CutFrame, FrameBody(<<>>)}

Init ==
    /\ DecIs(InitDec)
    /\ wire = <<>>
    /\ pre = InitDec /\ arg = PyBytes(<<>>) /\ ret = None
    /\ HistInit /\ StreamIdle /\ ReadIdle /\ CtlIdle

\* the next segment of bytes reaches the caller
Load(s) ==
    /\ wire = <<>> /\ nops < MaxOps
    /\ wire' = s
    /\ nops' = nops + 1
    /\ lastOp' = "load"
    /\ UNCHANGED <<decVars, callVars, fsum, resetDue, cur, lastFrame, corrupt>>
    /\ UNCHANGED <<streamVars, readVars>>
    /\ UNCHANGED ctlVars

\* the byte that balances the running sum reaches the caller
LoadBalance == Load(<<Balance(bytes_sum)>>)

\* one call input_read(byte), with what it leaves behind
Call(byte) ==
    LET r == input_read(Dec, byte)
    IN  /\ SetDec(r.d)
        /\ pre' = Dec /\ arg' = byte /\ ret' = r.ret
        /\ HistCall(Dec, byte, r)

\* the caller feeds the next byte: input_read(b'x')
Feed ==
    /\ wire # <<>>
    /\ Call(PyBytes(<<Head(wire)>>))
    /\ wire' = Tail(wire)
    /\ UNCHANGED <<nops, streamVars, readVars>>
    /\ UNCHANGED ctlVars

\* the caller passes something else than one byte: input_read('hello')
FeedObject(o) ==
    /\ nops < MaxOps
    /\ o \in CharArgs => wire = <<>>
    /\ Call(o)
    /\ nops' = nops + 1
    /\ UNCHANGED <<wire, streamVars, readVars>>
    /\ UNCHANGED ctlVars

\* the caller resets the decoder: init_data_read()
Reset ==
    /\ nops < MaxOps
    /\ SetDec(init_data_read(Dec))
    /\ HistReset
    /\ nops' = nops + 1
    /\ UNCHANGED <<wire, callVars, streamVars, readVars>>
    /\ UNCHANGED ctlVars

Next ==
    \/ \E s \in Segments : Load(s)
    \/ LoadBalance
    \/ Feed
    \/ \E o \in BadArgs \cup CharArgs : FeedObject(o)
    \/ Reset

Spec == Init /\ [][Next]_vars

-----------------------------------------------------------------------------
(* Properties of the decoder under Spec *)

\* a call has just been made: pre, arg and ret describe it
JustCalled == lastOp = "feed"

\* C1: input_read returns a block exactly on a byte consumed in IN_CHECKSUM
\* that brings the sum of the bytes added to bytes_sum since the accumulator
\* was last reset to 0 modulo 256; every other call returns no block.
C1_BlockOnlyOnZeroSum ==
    JustCalled =>
        (ret.kind = "block" <=>
            (OrdOk(arg) /\ pre.state = IN_CHECKSUM /\ fsum % 256 = 0))

\* a block was returned for a frame of several hundred summed bytes
C1_Witness ==
    /\ JustCalled /\ ret.kind = "block" /\ ret.block # {}
    /\ pre.state = IN_CHECKSUM /\ fsum >= 256 /\ bytes_sum = 0

\* C2: after a call that returned a block the decoder is in WAIT_HEADER with
\* bytes_sum = 0 and an empty dict, and the block holds exactly the pairs of
\* the frame its checksum byte ended.
C2_PendingEmptyAfterBlock ==
    (JustCalled /\ ret.kind = "block") =>
        /\ state = WAIT_HEADER /\ bytes_sum = 0 /\ dict = {}
        /\ ret.block = lastFrame

\* C3: no pair committed in a frame whose checksum failed is in a block
\* returned later (unless the frame that block ends committed it again).
C3_CorruptPairsDiscarded ==
    (JustCalled /\ ret.kind = "block") =>
        \A p \in ret.block : p \in corrupt => p \in lastFrame

\* the reading of "not exactly one byte": not an object of one element
NotOneElement(x) == x.t = "int" \/ Len(x.v) # 1

FedByte(b) == JustCalled /\ arg = PyBytes(<<b>>)

\* C25: a ':' fed in any state but IN_CHECKSUM puts the decoder in HEX with
\* bytes_sum = 0; in HEX every byte but LF keeps it in HEX and LF brings it
\* to WAIT_HEADER; a ':' fed in IN_CHECKSUM is the checksum byte and ends
\* the frame.
C25_ColonEntersHex ==
    /\ FedByte(hexmarker) =>
           IF pre.state # IN_CHECKSUM
           THEN state = HEX /\ bytes_sum = 0
           ELSE state = WAIT_HEADER
    /\ (JustCalled /\ OrdOk(arg) /\ pre.state = HEX) =>
           state = (IF Ord(arg) = header2 THEN WAIT_HEADER ELSE HEX)

\* C26: whatever was fed, key is non-empty only in IN_KEY, IN_VALUE or
\* IN_CHECKSUM, and value is non-empty only in IN_VALUE.
C26_BuffersFollowState ==
    /\ key # <<>> => state \in {IN_KEY, IN_VALUE, IN_CHECKSUM}
    /\ value # <<>> => state = IN_VALUE

\* a ':' was fed in the middle of a value, and both buffers are in use
C26_Witness ==
    /\ FedByte(hexmarker) /\ pre.state = IN_VALUE
    /\ key # <<>> /\ value # <<>> /\ state = IN_VALUE

\* C27: a byte of value 128..255 fed in IN_KEY or IN_VALUE (not a delimiter
\* there) is appended to key, respectively value, without an error and
\* without a change of state.
C27_HighByteAppended ==
    \A b \in 128..255 :
        (FedByte(b) /\ pre.state \in {IN_KEY, IN_VALUE}) =>
            /\ ret = None /\ state = pre.state
            /\ pre.state = IN_KEY => key = pre.key \o <<b>>
            /\ pre.state = IN_VALUE => value = pre.value \o <<b>>

-----------------------------------------------------------------------------
(* SpecStream: a captured byte stream fed to a fresh decoder byte by byte,  *)
(* and fed again after init_data_read                                       *)

\* a frame of a script: its pairs and the error of its checksum byte
Units == {[pairs |-> p, delta |-> d] : p \in FramePairs, d \in {0, 1}}

UnitBytes(u) == Frame(u.pairs, u.delta)

\* scripts of one to MaxFrames frames
FrameScripts ==
    UNION {[1..n -> Units] : n \in 1..MaxFrames}

\* a frame with the HEX message inserted after its at-th byte
HexInject(f, at) == SubSeq(f, 1, at) \o HexMsg \o SubSeq(f, at + 1, Len(f))

\* scripts of one valid frame with a HEX message inside it
HexScripts ==
    UNION {{[kind |-> "hex", pairs |-> p, at |-> i] :
                i \in 1..(Len(Frame(p, 0)) - 1)} : p \in FramePairs}

\* CR LF 'PID' TAB '0x203' CR LF TAB 'Checksum' TAB, then the balancing byte
Scenario1 ==
    LET body == <<13, 10, 80, 73, 68, 9, 48, 120, 50, 48, 51, 13, 10, 9,
                  67, 104, 101, 99, 107, 115, 117, 109, 9>>
    IN  body \o <<Balance(SumSeq(body))>>

\* the same without the TAB before 'Checksum'
Scenario1NoTab ==
    LET body == <<13, 10, 80, 73, 68, 9, 48, 120, 50, 48, 51, 13, 10,
                  67, 104, 101, 99, 107, 115, 117, 109, 9>>
    IN  body \o <<Balance(SumSeq(body))>>

Scripts ==
    {[kind |-> "frames", units |-> us] : us \in FrameScripts}
        \cup HexScripts
        \cup {[kind |-> "scenario1"], [kind |-> "scenario1notab"]}

ScriptBytes(sc) ==
    CASE sc.kind = "frames" ->
            Flatten([i \in 1..Len(sc.units) |-> UnitBytes(sc.units[i])])
      [] sc.kind = "hex" -> HexInject(Frame(sc.pairs, 0), sc.at)
      [] sc.kind = "scenario1" -> Scenario1
      [] sc.kind = "scenario1notab" -> Scenario1NoTab

InitStream ==
    /\ DecIs(InitDec)
    /\ wire = <<>>
    /\ pre = InitDec /\ arg = PyBytes(<<>>) /\ ret = None
    /\ HistInit /\ ReadIdle /\ CtlIdle
    /\ script \in Scripts
    /\ stream = ScriptBytes(script)
    /\ pos = 0 /\ pass = 1 /\ emits1 = <<>> /\ emits2 = <<>>
    /\ resetAt = 0 /\ errs = 0

\* what a call at stream position p adds to the list of returned blocks
Emitted(es, p, r) ==
    IF r.kind = "block" THEN Append(es, [at |-> p, block |-> r.block]) ELSE es

\* the next byte of the stream is fed: input_read(b'x')
StreamFeed ==
    /\ pos < Len(stream)
    /\ LET r == input_read(Dec, PyBytes(<<stream[pos + 1]>>))
       IN  /\ SetDec(r.d)
           /\ pre' = Dec /\ arg' = PyBytes(<<stream[pos + 1]>>) /\ ret' = r.ret
           /\ emits1' = IF pass = 1 THEN Emitted(emits1, pos + 1, r.ret) ELSE emits1
           /\ emits2' = IF pass = 2 THEN Emitted(emits2, pos + 1, r.ret) ELSE emits2
           /\ errs' = IF r.ret.kind \in {"none", "block"} THEN errs ELSE errs + 1
    /\ pos' = pos + 1
    /\ UNCHANGED <<script, stream, pass, resetAt, wire, histVars, readVars>>
    /\ UNCHANGED ctlVars

\* init_data_read(), after which the stream is fed again from its first byte
StreamReset ==
    /\ pass = 1
    /\ SetDec(init_data_read(Dec))
    /\ pass' = 2 /\ pos' = 0 /\ resetAt' = pos
    /\ UNCHANGED <<script, stream, emits1, emits2, errs, callVars, wire,
                   histVars, readVars>>
    /\ UNCHANGED ctlVars

NextStream == StreamFeed \/ StreamReset

SpecStream == InitStream /\ [][NextStream]_vars

-----------------------------------------------------------------------------
(* Properties of scripted streams under SpecStream *)

\* the stream position of the last byte of the k-th frame of a script
RECURSIVE EndOf(_, _)
EndOf(us, k) == IF k = 0 THEN 0 ELSE EndOf(us, k - 1) + Len(UnitBytes(us[k]))

\* the positions at which blocks were returned in the first pass
EmitPositions == [i \in 1..Len(emits1) |-> emits1[i].at]

FirstPass == script.kind = "frames" /\ pass = 1

\* C4: a frame with a wrong checksum byte gives no block and no error and
\* leaves the decoder in WAIT_HEADER with bytes_sum = 0; the valid frame fed
\* after it is returned as a block.
C4_CorruptFrameDropped ==
    FirstPass =>
        \A i \in 1..Len(script.units) :
            script.units[i].delta # 0 =>
                /\ errs = 0
                /\ \A j \in 1..Len(emits1) :
                      ~(EndOf(script.units, i - 1) < emits1[j].at
                            /\ emits1[j].at <= EndOf(script.units, i))
                /\ pos = EndOf(script.units, i) =>
                      /\ ret = None
                      /\ state = WAIT_HEADER /\ bytes_sum = 0
                /\ ( /\ i < Len(script.units)
                     /\ script.units[i + 1].delta = 0
                     /\ pos = EndOf(script.units, i + 1) ) =>
                      /\ ret.kind = "block"
                      /\ PairsDict(script.units[i + 1].pairs) \subseteq ret.block

\* a valid frame fed after a corrupt one has just been returned
C4_Witness ==
    /\ FirstPass /\ Len(script.units) = 2
    /\ script.units[1].delta = 1 /\ script.units[1].pairs # <<>>
    /\ script.units[2].delta = 0 /\ script.units[2].pairs # <<>>
    /\ pos = Len(stream) /\ ret.kind = "block" /\ errs = 0

AllValid == \A i \in 1..Len(script.units) : script.units[i].delta = 0

\* C5: valid frames fed one after the other give one block each, returned at
\* the last byte of its frame, in the order of the frames.
C5_OneBlockPerFrame ==
    (FirstPass /\ AllValid) =>
        LET done == {k \in 1..Len(script.units) : EndOf(script.units, k) <= pos}
        IN  /\ Len(emits1) = Cardinality(done)
            /\ \A k \in done :
                  /\ emits1[k].at = EndOf(script.units, k)
                  /\ PairsDict(script.units[k].pairs) \subseteq emits1[k].block

\* two frames with different pairs were fed and gave two blocks
C5_Witness ==
    /\ FirstPass /\ AllValid /\ Len(script.units) = 2
    /\ script.units[1].pairs # script.units[2].pairs
    /\ script.units[1].pairs # <<>> /\ script.units[2].pairs # <<>>
    /\ pos = Len(stream) /\ Len(emits1) = 2
    /\ EmitPositions = <<EndOf(script.units, 1), Len(stream)>>

\* C6: a HEX message inside a valid frame changes nothing: the frame gives
\* the block it gives without the message, at its last byte, without error.
C6_HexMessageIgnored ==
    (script.kind = "hex" /\ pass = 1 /\ pos = Len(stream)) =>
        /\ emits1 = <<[at |-> Len(stream), block |-> PairsDict(script.pairs)]>>
        /\ errs = 0

\* the block {PID: 0x203}
BlockPID == {[k |-> sPID, v |-> s0x203]}

\* C7 as stated: the bytes CR LF PID TAB 0x203 CR LF TAB Checksum TAB C give
\* exactly one block {PID: 0x203}, the decoder ending in WAIT_HEADER with
\* bytes_sum = 0.
C7_Scenario1AsStated ==
    (script.kind = "scenario1" /\ pass = 1 /\ pos = Len(stream)) =>
        /\ emits1 = <<[at |-> Len(stream), block |-> BlockPID]>>
        /\ state = WAIT_HEADER /\ bytes_sum = 0

\* C7 amended: the bytes CR LF PID TAB 0x203 CR LF Checksum TAB C (no TAB
\* before Checksum) give exactly one block {PID: 0x203}, returned at the last
\* byte, the decoder ending in WAIT_HEADER with bytes_sum = 0.
C7_Scenario1NoTab ==
    (script.kind = "scenario1notab" /\ pass = 1) =>
        /\ errs = 0
        /\ pos < Len(stream) => emits1 = <<>>
        /\ pos = Len(stream) =>
              /\ emits1 = <<[at |-> Len(stream), block |-> BlockPID]>>
              /\ state = WAIT_HEADER /\ bytes_sum = 0

C7_Witness ==
    /\ script.kind = "scenario1notab" /\ pass = 1 /\ pos = Len(stream)
    /\ ret = Block(BlockPID)

\* the blocks of a list returned at or before position p
UpTo(es, p) == LET T(e) == e.at <= p IN SelectSeq(es, T)

\* C8: right after init_data_read every decoder field has its initial value,
\* and the stream fed again gives the blocks it gave to the fresh decoder, at
\* the same bytes.
C8_ResetIsFresh ==
    pass = 2 =>
        /\ pos = 0 => Dec = InitDec
        /\ UpTo(emits2, resetAt) = UpTo(emits1, pos)

\* a stream of two frames was fed, the decoder reset after its last byte,
\* and the stream fed again
C8_Witness ==
    /\ script.kind = "frames" /\ pass = 2
    /\ resetAt = Len(stream) /\ pos = Len(stream)
    /\ Len(emits1) = 2 /\ emits2 = emits1
    /\ emits1[2].block # {}

-----------------------------------------------------------------------------
(* SpecRead: read_data_single on a serial port *)

MaxClock == 3
MaxSent == 2

\* the timeouts read_data_single is called with
Timeouts == {1, 2}

\* what the device may put on the line in one go: a valid frame, a frame cut
\* in the middle of a value, a NUL, and a line start with a non-ASCII byte
Sendable == {Frame(<<>>, 0), Line(sV, s12800), <<0>>, <<header2, 200>>}

\* the decoder after a sequence of bytes was fed to it, up to the first call
\* that raises
RECURSIVE DecAfter(_, _)
DecAfter(d, bs) ==
    IF bs = <<>> THEN d
    ELSE CHOOSE nd \in
             { IF r.ret.kind \in {"none", "block"} THEN DecAfter(r.d, Tail(bs))
               ELSE r.d : r \in {input_read(d, PyBytes(<<Head(bs)>>))} } : TRUE

\* serial.Serial.read(1) on line w: the next byte, or b'' when none came
\* before the read timeout
ser_read(w) ==
    IF w = <<>> THEN [byte |-> PyBytes(<<>>), wire |-> w]
    ELSE [byte |-> PyBytes(<<Head(w)>>), wire |-> Tail(w)]

\* Vedirect.is_ready
is_ready == ser_open

\* a timeout test that fires only after the timeout is passed
is_timeout_late(elapsed, timeout) == elapsed > timeout

\* Vedirect.is_timeout: raises TimeoutException, or returns True
is_timeout(elapsed, timeout) == elapsed >= timeout

\* Vedirect.get_serial_packet on decoder d and line w
get_serial_packet(d, w) ==
    LET r1 == ser_read(w)
        r2 == IF r1.byte = PyBytes(<<0>>) THEN ser_read(r1.wire) ELSE r1
        r == input_read(d, r2.byte)
    IN  [d |-> r.d, ret |-> r.ret, wire |-> r2.wire, byte |-> r2.byte]

InitRead ==
    /\ \E d \in {InitDec, DecAfter(InitDec, Line(sV, s12800))} : DecIs(d)
    /\ wire = <<>>
    /\ pre = InitDec /\ arg = PyBytes(<<>>) /\ ret = None
    /\ HistInit /\ StreamIdle /\ CtlIdle
    /\ clock = 0 /\ rs_pc = "idle" /\ rs_timeout = 0 /\ rs_now = 0 /\ rs_tim = 0
    /\ rs_out = None /\ rs_reads = 0 /\ narr = 0
    /\ ser_open \in BOOLEAN

\* time passes: before a call, while a call reads, and while a search sleeps
\* between two rounds over the ports
Tick ==
    /\ clock < MaxClock
    /\ cb_pc # "done" /\ rc_pc \in {"idle", "sleep"}
    /\ clock' = clock + 1
    /\ UNCHANGED <<decVars, wire, callVars, histVars, streamVars, rs_pc,
                   rs_timeout, rs_now, rs_tim, rs_out, rs_reads, ser_open, narr>>
    /\ UNCHANGED ctlVars

\* the device sends bytes
DeviceSends(bs) ==
    /\ narr < MaxSent
    /\ wire' = wire \o bs
    /\ narr' = narr + 1
    /\ UNCHANGED <<decVars, callVars, histVars, streamVars, clock, rs_pc,
                   rs_timeout, rs_now, rs_tim, rs_out, rs_reads, ser_open>>
    /\ UNCHANGED ctlVars

\* read_data_single(timeout) is called: lines 333-335 and 347-350
ReadStart(t) ==
    /\ rs_pc \in {"idle", "done"}
    /\ rs_timeout' = t /\ rs_now' = clock /\ rs_tim' = 0 /\ rs_reads' = 0
    /\ IF is_ready
       THEN rs_pc' = "loop" /\ rs_out' = None
       ELSE rs_pc' = "done" /\ rs_out' = None
    /\ UNCHANGED <<decVars, wire, callVars, histVars, streamVars, clock,
                   ser_open, narr>>
    /\ UNCHANGED ctlVars

\* one turn of the loop of read_data_single: lines 336-346
ReadLoop ==
    /\ rs_pc = "loop"
    /\ LET r == get_serial_packet(Dec, wire)
       IN  /\ rs_tim' = clock
           /\ SetDec(r.d)
           /\ wire' = r.wire
           /\ pre' = Dec /\ arg' = r.byte /\ ret' = r.ret
           /\ rs_reads' = rs_reads + (Len(wire) - Len(r.wire))
           /\ IF r.ret.kind # "none"
              THEN rs_pc' = "done" /\ rs_out' = r.ret
              ELSE IF is_timeout(clock - rs_now, rs_timeout)
              THEN rs_pc' = "done" /\ rs_out' = Raise("Timeout")
              ELSE rs_pc' = "loop" /\ rs_out' = None
    /\ UNCHANGED <<histVars, streamVars, clock, rs_timeout, rs_now, ser_open, narr>>
    /\ UNCHANGED ctlVars

NextRead ==
    \/ Tick
    \/ \E bs \in Sendable : DeviceSends(bs)
    \/ \E t \in Timeouts : ReadStart(t)
    \/ ReadLoop

SpecRead == InitRead /\ [][NextRead]_vars

\* the call has ended with an exception
ReadFailed == rs_pc = "done" /\ rs_out.kind \notin {"none", "block"}

\* C10: while the open port gives only empty reads, read_data_single keeps
\* looping; the only way it fails is Timeout, raised once the time since
\* entry has reached the timeout; an empty read gives no other error.
C10_EmptyReadsEndInTimeout ==
    (ReadFailed /\ rs_reads = 0) =>
        (rs_out.kind = "Timeout" /\ rs_tim - rs_now >= rs_timeout)

\* the last turn of the loop fed a byte, got no block and asked is_timeout
AskedTimeout ==
    \/ rs_pc = "loop" /\ rs_reads > 0
    \/ rs_pc = "done" /\ rs_out = Raise("Timeout")

-----------------------------------------------------------------------------
(* SpecLine: valid frames on the serial line, read by get_serial_packet     *)

\* a frame whose checksum byte is 0x00: CR LF 'V' TAB '7' CR LF 'Checksum'
\* TAB NUL
NulPairs == <<<<sV, <<55>>>>>>

\* the frames the device sends
LineUnits == {[pairs |-> p, delta |-> 0] : p \in FramePairs \cup {NulPairs}}

\* one to MaxFrames valid frames, sent one after the other
LineScripts ==
    {[kind |-> "line", units |-> us] :
        us \in UNION {[1..n -> LineUnits] : n \in 1..MaxFrames}}

InitLine ==
    /\ DecIs(InitDec)
    /\ pre = InitDec /\ arg = PyBytes(<<>>) /\ ret = None
    /\ HistInit /\ ReadIdle /\ CtlIdle
    /\ script \in LineScripts
    /\ stream = Flatten([i \in 1..Len(script.units) |-> UnitBytes(script.units[i])])
    /\ wire = stream
    /\ pos = 0 /\ pass = 1 /\ emits1 = <<>> /\ emits2 = <<>>
    /\ resetAt = 0 /\ errs = 0

\* one call of get_serial_packet while bytes are on the line
PacketRead ==
    /\ wire # <<>>
    /\ LET r == get_serial_packet(Dec, wire)
           p == Len(stream) - Len(r.wire)
       IN  /\ SetDec(r.d) /\ wire' = r.wire
           /\ pre' = Dec /\ arg' = r.byte /\ ret' = r.ret
           /\ pos' = p
           /\ emits1' = Emitted(emits1, p, r.ret)
           /\ errs' = IF r.ret.kind \in {"none", "block"} THEN errs ELSE errs + 1
    /\ UNCHANGED <<script, stream, pass, emits2, resetAt, histVars, readVars>>
    /\ UNCHANGED ctlVars

NextLine == PacketRead

SpecLine == InitLine /\ [][NextLine]_vars

\* C31: every valid frame that the line delivers is returned as a block by
\* get_serial_packet when its last byte is read, whatever its checksum
\* byte, 0x00 included: the skip of a NUL drops no frame.
C31_NulChecksumFrameEmitted ==
    \A k \in 1..Len(script.units) :
        pos >= EndOf(script.units, k) =>
            \E i \in 1..Len(emits1) :
                /\ emits1[i].at = EndOf(script.units, k)
                /\ emits1[i].block = PairsDict(script.units[k].pairs)

-----------------------------------------------------------------------------
(* SpecResync: a decoder that starts listening anywhere, then valid frames  *)

\* the number of valid frames fed after the bytes that put the decoder out
\* of step
MaxResync == 4

\* a frame without ':' and without a byte above 127
AsciiFrame(f) == \A i \in 1..Len(f) : f[i] < 128 /\ f[i] # hexmarker

\* the valid frames fed to resynchronise
ResyncUnits ==
    {u \in Units : u.delta = 0 /\ AsciiFrame(UnitBytes(u))}

\* a frame up to its checksum byte, after a byte that makes the CR of the
\* next frame a good checksum
BalancedCut ==
    <<Balance(SumSeq(FrameBody(<<>>)) + header1)>> \o FrameBody(<<>>)

\* the bytes fed before the frames: up to two loose bytes, the end of a
\* frame from any of its bytes, and frames cut at the checksum byte, in the
\* key 'Checksum' and in a value
Prefixes ==
    {<<>>} \cup {<<a>> : a \in LooseBytes}
        \cup {<<a, b>> : a \in LooseBytes, b \in LooseBytes}
        \cup UNION {{SubSeq(UnitBytes(u), i, Len(UnitBytes(u))) :
                        i \in 2..Len(UnitBytes(u))} : u \in ResyncUnits}
        \cup {FrameBody(<<>>), BalancedCut, <<header2>> \o ChecksumKey,
              CutFrame, Frame(<<<<sV, s12800>>>>, 1)}

\* a script: the prefix, the frames, and the stream position of the last
\* byte of each frame (0 standing for the prefix)
ResyncScripts ==
    {[kind |-> "resync", prefix |-> pf, units |-> us,
      ends |-> [k \in 0..MaxResync |-> Len(pf) + EndOf(us, k)]] :
        pf \in Prefixes, us \in [1..MaxResync -> ResyncUnits]}

InitResync ==
    /\ DecIs(InitDec)
    /\ wire = <<>>
    /\ pre = InitDec /\ arg = PyBytes(<<>>) /\ ret = None
    /\ HistInit /\ ReadIdle /\ CtlIdle
    /\ script \in ResyncScripts
    /\ stream = script.prefix
           \o Flatten([i \in 1..Len(script.units) |-> UnitBytes(script.units[i])])
    /\ pos = 0 /\ pass = 1 /\ emits1 = <<>> /\ emits2 = <<>>
    /\ resetAt = 0 /\ errs = 0

NextResync == StreamFeed

SpecResync == InitResync /\ [][NextResync]_vars

\* the positions of frame k at which a block was returned
BlocksIn(k, ends) ==
    {emits1[i].at : i \in 1..Len(emits1)} \cap ((ends[k - 1] + 1)..ends[k])

\* frame k, once fed, gave one block, at its last byte, holding its pairs
InStep(k, ends) ==
    pos >= ends[k] =>
        /\ BlocksIn(k, ends) = {ends[k]}
        /\ \A i \in 1..Len(emits1) :
               emits1[i].at = ends[k] =>
                   PairsDict(script.units[k].pairs) \subseteq emits1[i].block

\* C32: from whatever state the bytes fed before have left the decoder in,
\* consecutive valid frames bring it back in step: a block is returned no
\* later than the last byte of the third frame, and from that frame on each
\* frame gives exactly one block.
C32_ResyncWithinThreeFrames ==
    \E j \in 1..3 : \A k \in j..Len(script.units) : InStep(k, script.ends)

\* the decoder began in the middle of a frame, lost the first frame fed
\* after it and gave a block for each of the following ones
C32_Witness ==
    /\ script.prefix # <<>> /\ pos = Len(stream)
    /\ BlocksIn(1, script.ends) = {}
    /\ \A k \in 2..Len(script.units) :
           BlocksIn(k, script.ends) = {script.ends[k]}

-----------------------------------------------------------------------------
(* SpecCtl: VedirectController, reading with reconnection *)

MaxBlocks == 1
MaxSearch == 1

\* the serial ports of the host: the port of the VE.Direct device, the port
\* of another device, a port that cannot be opened, a path that is no port
VePort == "/tmp/vmodem1"
OtherPort == "/tmp/vmodem0"
DeadPort == "/tmp/vmodem255"
BadPath == "/etc/bad_port"

Range(f) == {f[i] : i \in DOMAIN f}

\* what SerialConnection.get_serial_ports_list may return
PortLists ==
    { <<>>, <<BadPath>>, <<DeadPort>>, <<VePort>>, <<OtherPort, VePort>> }

\* the ports that can be opened
Openable == {VePort, OtherPort}

PidFrame == Frame(<<<<sPID, s0x203>>>>, 0)
VFrame == Frame(<<<<sV, s12800>>>>, 0)

\* the bytes a port holds half a second after it was opened
PortWire(p) ==
    IF p = VePort
    THEN IF steady THEN {PidFrame \o PidFrame}
         ELSE {<<>>, PidFrame, PidFrame \o PidFrame}
    ELSE {<<>>, VFrame}

\* what the attached device may send in one go: a frame, or its last byte
CtlSendable == {PidFrame, <<PidFrame[Len(PidFrame)]>>}

\* the configured read timeouts, the connection timeouts and the values of
\* max_loops the calls are made with
ConfTimeouts == {2}
ConnTimeouts == {0, 1}
MaxLoops ==
    {[set |-> FALSE, n |-> 0]} \cup {[set |-> TRUE, n |-> k] : k \in 0..MaxBlocks}

\* the decoder at the time of a call: fresh, after a frame, inside a frame
CtlDecs ==
    { InitDec, DecAfter(InitDec, PidFrame),
      DecAfter(InitDec, FrameBody(<<<<sPID, s0x203>>>>)) }

\* the identity tests of the settings: PID must be 0x203
serial_test == {[k |-> sPID, v |-> s0x203]}

ReturnTrue == [kind |-> "True", block |-> {}]
Sentinel == [kind |-> "none", block |-> {}]

\* SerialConnection.is_serial_port
is_serial_port(p) == p # BadPath

\* SerialConnection.connect(serial_port=p, timeout=0): the transport is
\* closed, then opened on p with read timeout 0; False when p does not open
connect(p) == [open |-> p \in Openable, port |-> p, timeout |-> 0]

\* SerialTestHelper.run_serial_tests: every test finds its value in the block
run_serial_tests(data) ==
    data.kind = "block" /\ \A t \in serial_test : t \in data.block

\* VedirectController.has_serial_test
has_serial_test == has_test

\* VedirectController.is_ready
ctl_is_ready == ser_open /\ has_serial_test

\* a search that needs no serial test
is_ready_to_search_ports_untested == has_com

\* VedirectController.is_ready_to_search_ports
is_ready_to_search_ports == has_com /\ has_serial_test

\* get_serial_packet on a port whose device may be gone: serial.Serial.read
\* raises SerialException then
get_serial_packet_on(d, w, up) ==
    IF up THEN get_serial_packet(d, w)
    ELSE [d |-> d, ret |-> Raise("SerialException"), wire |-> w,
          byte |-> PyBytes(<<>>)]

\* the exceptions read_data_callback answers by a search: line 307
CaughtErrors == {"InputRead", "SerialException"}

\* Vedirect.read_data_single on decoder d and the bytes w the port holds,
\* with the number of bytes read and the pairs committed on the way
RECURSIVE read_data_single(_, _, _, _)
read_data_single(d, w, fed, fresh) ==
    CHOOSE res \in
        { LET n == fed + (Len(w) - Len(r.wire))
              f == IF Commits(d, r.byte) THEN DictSet(fresh, d.key, d.value)
                   ELSE fresh
          IN  IF r.ret.kind # "none"
              THEN [d |-> r.d, ret |-> r.ret, wire |-> r.wire, fed |-> n,
                    fresh |-> f]
              ELSE read_data_single(r.d, r.wire, n, f)
          : r \in {get_serial_packet(d, w)} } : TRUE

\* VedirectController.read_data_to_test
read_data_to_test(d, w, ready) ==
    IF ~ready
    THEN [d |-> d, wire |-> w, data |-> None, fed |-> 0, fresh |-> {}]
    ELSE LET r == read_data_single(d, w, 0, {})
         IN  [d |-> r.d, wire |-> r.wire,
              data |-> IF r.ret.kind = "block" THEN Block(r.ret.block)
                       ELSE Block({}),
              fed |-> r.fed, fresh |-> r.fresh]

\* a search that leaves the decoder as the probe left it
search_keeps_decoder(d) == d

\* search_serial_port, lines 227-229: the decoder is reset on success
search_reset(d) == init_data_read(d)

\* test_serial_ports, line 204: the read timeout is set back
restore_timeout(c) == c

\* wait_or_search_serial_connection, line 267
deadline_passed(elapsed, timeout) == elapsed > timeout

InitCtl ==
    /\ \E d \in CtlDecs : DecIs(d)
    /\ wire = <<>>
    /\ pre = InitDec /\ arg = PyBytes(<<>>) /\ ret = None
    /\ HistInit /\ StreamIdle
    /\ clock = 0 /\ rs_pc = "idle" /\ rs_timeout = 0 /\ rs_now = 0 /\ rs_tim = 0
    /\ rs_out = None /\ rs_reads = 0 /\ narr = 0
    /\ ser_open \in BOOLEAN
    /\ plist = <<>> /\ steady = FALSE
    /\ has_com = TRUE /\ has_test \in BOOLEAN
    /\ conf_timeout \in ConfTimeouts /\ ser_timeout = conf_timeout
    /\ cur_port = VePort /\ link = TRUE
    /\ cb_pc = "idle" /\ cb_now = 0 /\ cb_tim = 0 /\ cb_i = 0
    /\ cb_max = [set |-> FALSE, n |-> 0] /\ cb_timeout = 0 /\ cb_conn = 0
    /\ cb_out = None /\ cb_calls = <<>>
    /\ cb_it = [kind |-> "none", el |-> 0] /\ cb_anchor = 0
    /\ cb_nsearch = 0
    /\ rc_pc = "idle" /\ rc_caller = "" /\ rc_now = 0 /\ rc_tim = 0
    /\ rc_timeout = 0 /\ rc_idx = 0 /\ rc_out = None /\ rc_ready = FALSE
    /\ rc_open0 = FALSE /\ rc_opened = FALSE /\ rc_data = None /\ rc_fresh = {}
    /\ probe_pre = InitDec /\ probe_fed = 0
    /\ life = "live" /\ stale = {} /\ op = NoOp

\* the device on the attached port sends bytes once the line is read empty
PortReceives(bs) ==
    /\ cb_pc = "loop" /\ ser_open /\ link
    /\ wire = <<>> /\ narr < MaxSent
    /\ wire' = bs
    /\ narr' = narr + 1
    /\ UNCHANGED <<decVars, callVars, histVars, streamVars, clock, rsVars,
                   ser_open, ctlVars>>

\* the device on the attached port goes away, between two of its messages
Unplug ==
    /\ cb_pc = "loop" /\ ser_open /\ link /\ wire = <<>>
    /\ link' = FALSE
    /\ UNCHANGED <<decVars, wire, callVars, histVars, streamVars, readVars,
                   envVars, cur_port, ser_timeout, cbVars, rcVars, confVars>>

\* entry of wait_or_search_serial_connection(timeout=t): lines 256-258, and
\* 277-281 when the controller cannot search; st tells whether the device
\* on VePort sends its frames without a pause
RcEnter(caller, t, st) ==
    /\ rc_caller' = caller /\ rc_timeout' = t
    /\ IF is_ready_to_search_ports
       THEN /\ plist' \in {l \in PortLists : st => VePort \in Range(l)}
            /\ steady' = st
       ELSE UNCHANGED <<plist, steady>>
    /\ rc_ready' = is_ready_to_search_ports
    /\ rc_open0' = ser_open /\ rc_opened' = FALSE
    /\ rc_data' = None /\ rc_fresh' = {} /\ probe_pre' = InitDec
    /\ probe_fed' = 0
    /\ rc_now' = clock /\ rc_tim' = clock
    /\ IF is_ready_to_search_ports
       THEN rc_pc' = "sweep" /\ rc_idx' = 1 /\ rc_out' = None
       ELSE rc_pc' = "done" /\ rc_idx' = 0 /\ rc_out' = Raise("Vedirect")

\* wait_or_search_serial_connection(timeout=t) is called
RcCall(t, st) ==
    /\ life = "live" /\ cb_pc = "idle" /\ rc_pc = "idle"
    /\ RcEnter("caller", t, st)
    /\ UNCHANGED <<decVars, wire, callVars, histVars, streamVars, readVars,
                   has_com, has_test, conf_timeout, portVars, cbVars,
                   confVars>>

\* test_serial_ports, lines 195-212, on the next port of the list, and
\* search_serial_port, lines 227-229, when the port passes the tests
RcProbe ==
    /\ rc_pc = "sweep" /\ rc_idx <= Len(plist)
    /\ LET p == plist[rc_idx]
           c == connect(p)
       IN  IF ~is_serial_port(p)
           THEN /\ rc_idx' = rc_idx + 1
                /\ UNCHANGED <<decVars, wire, ser_open, portVars, rc_pc,
                               rc_out, rc_opened, rc_data, rc_fresh,
                               probe_pre, probe_fed>>
           ELSE IF ~c.open
           THEN /\ rc_idx' = rc_idx + 1
                /\ ser_open' = FALSE /\ cur_port' = c.port /\ wire' = <<>>
                /\ UNCHANGED <<decVars, ser_timeout, link, rc_pc, rc_out,
                               rc_opened, rc_data, rc_fresh, probe_pre,
                               probe_fed>>
           ELSE \E w \in PortWire(p) :
                \E t \in {read_data_to_test(Dec, w, has_serial_test)} :
                    /\ cur_port' = c.port /\ link' = TRUE
                    /\ rc_opened' = TRUE
                    /\ probe_pre' = Dec /\ probe_fed' = t.fed
                    /\ rc_data' = t.data /\ rc_fresh' = t.fresh
                    /\ IF run_serial_tests(t.data)
                       THEN /\ ser_open' = TRUE /\ wire' = t.wire
                            /\ ser_timeout' = restore_timeout(conf_timeout)
                            /\ SetDec(search_reset(t.d))
                            /\ rc_pc' = "done" /\ rc_out' = ReturnTrue
                            /\ rc_idx' = rc_idx
                       ELSE /\ ser_open' = FALSE /\ wire' = <<>>
                            /\ ser_timeout' = c.timeout
                            /\ SetDec(t.d)
                            /\ rc_pc' = "sweep" /\ rc_out' = None
                            /\ rc_idx' = rc_idx + 1
    /\ UNCHANGED <<callVars, histVars, streamVars, clock, rsVars, narr,
                   envVars, cbVars, rc_caller, rc_now, rc_tim, rc_timeout,
                   rc_ready, rc_open0, confVars>>

\* the list is through without a port found: lines 267-275
RcSweepEnd ==
    /\ rc_pc = "sweep" /\ rc_idx > Len(plist)
    /\ IF deadline_passed(rc_tim - rc_now, rc_timeout)
       THEN rc_pc' = "done" /\ rc_out' = Raise("Timeout")
       ELSE rc_pc' = "sleep" /\ rc_out' = None
    /\ UNCHANGED <<decVars, wire, callVars, histVars, streamVars, readVars,
                   envVars, portVars, cbVars, rc_caller, rc_now, rc_tim,
                   rc_timeout, rc_idx, rc_ready, rc_open0, rc_opened,
                   rc_data, rc_fresh, probe_pre, probe_fed, confVars>>

\* the next turn of the loop of wait_or_search_serial_connection: line 265,
\* then search_serial_port with the list of ports
RcWake ==
    /\ rc_pc = "sleep"
    /\ rc_pc' = "sweep" /\ rc_tim' = clock /\ rc_idx' = 1
    /\ UNCHANGED <<decVars, wire, callVars, histVars, streamVars, readVars,
                   plist, steady, has_com, has_test, conf_timeout, portVars, cbVars,
                   rc_caller, rc_now, rc_timeout,
                   rc_out, rc_ready, rc_open0, rc_opened, rc_data, rc_fresh,
                   probe_pre, probe_fed, confVars>>

\* read_data_callback(callback_func, t, ct, m) is called: lines 300-303, and
\* 337-341 when the controller is not ready
CbStart(t, m) ==
    /\ life = "live" /\ cb_pc = "idle" /\ rc_pc = "idle"
    /\ cb_timeout' = t /\ cb_conn' = 0 /\ cb_max' = m
    /\ cb_now' = clock /\ cb_tim' = 0 /\ cb_i' = 0 /\ cb_anchor' = clock
    /\ cb_it' = [kind |-> "none", el |-> 0]
    /\ cb_out' = None /\ cb_nsearch' = 0
    /\ IF ctl_is_ready
       THEN cb_pc' = "loop" /\ cb_calls' = <<>>
       ELSE cb_pc' = "done" /\ cb_calls' = <<Sentinel>>
    /\ UNCHANGED <<decVars, wire, callVars, histVars, streamVars, readVars,
                   envVars, portVars, rcVars, confVars>>

\* lines 316-335 of one turn of the loop, r being what get_serial_packet
\* gave, now the anchor and tim the time of the turn; since is the time of
\* the last block, entry or successful search
CbRest(r, now, tim, since) ==
    LET got == r.ret.kind = "block"
        now1 == IF got THEN tim ELSE now
        i1 == IF got THEN cb_i + 1 ELSE cb_i
    IN  /\ SetDec(r.d) /\ wire' = r.wire
        /\ cb_tim' = tim /\ cb_now' = now1 /\ cb_i' = i1
        /\ IF r.ret.kind \notin {"none", "block"}
           THEN /\ cb_pc' = "done" /\ cb_out' = r.ret
                /\ cb_calls' = cb_calls
                /\ cb_it' = [kind |-> "raised", el |-> clock - since]
           ELSE /\ cb_calls' = IF got THEN Append(cb_calls, r.ret) ELSE cb_calls
                /\ cb_it' = [kind |-> IF got THEN "block" ELSE "noblock",
                             el |-> clock - since]
                /\ IF is_timeout(tim - now1, cb_timeout)
                   THEN cb_pc' = "done" /\ cb_out' = Raise("Timeout")
                   ELSE IF cb_max.set /\ i1 >= cb_max.n
                   THEN cb_pc' = "done" /\ cb_out' = ReturnTrue
                   ELSE cb_pc' = "loop" /\ cb_out' = None

\* one turn of the loop of read_data_callback: lines 304-335; the value of
\* connection_timeout is drawn where the call first uses it; now and tim are
\* not read again before line 312 sets them, and are not kept over the search
CbIter ==
    /\ cb_pc = "loop"
    /\ LET r == get_serial_packet_on(Dec, wire, link)
       IN  IF r.ret.kind \in CaughtErrors
           THEN /\ cb_nsearch < MaxSearch
                /\ cb_nsearch' = cb_nsearch + 1
                /\ SetDec(r.d) /\ wire' = r.wire
                /\ cb_tim' = 0 /\ cb_now' = 0 /\ cb_anchor' = 0
                /\ cb_pc' = "search"
                /\ cb_it' = [kind |-> "caught", el |-> 0]
                /\ \E ct \in ConnTimeouts :
                       cb_conn' = ct /\ RcEnter("callback", ct, FALSE)
                /\ UNCHANGED <<cb_i, cb_out, cb_calls>>
           ELSE /\ CbRest(r, cb_now, clock, cb_anchor)
                /\ cb_anchor' = IF r.ret.kind = "block" THEN clock ELSE cb_anchor
                /\ UNCHANGED <<plist, steady, cb_conn, cb_nsearch, rcVars>>
    /\ UNCHANGED <<callVars, histVars, streamVars, clock, rsVars, ser_open,
                   narr, has_com, has_test, conf_timeout, portVars, cb_max,
                   cb_timeout, confVars>>

\* the search has ended: lines 311-314 and the rest of the turn when it found
\* a port, its exception reaching the caller when it did not
CbResume ==
    /\ cb_pc = "search" /\ rc_pc = "done"
    /\ IF rc_out = ReturnTrue
       THEN /\ CbRest(get_serial_packet_on(Dec, wire, link), clock, clock, clock)
            /\ cb_anchor' = clock
       ELSE /\ cb_pc' = "done" /\ cb_out' = rc_out
            /\ cb_it' = [kind |-> "failed", el |-> cb_it.el]
            /\ UNCHANGED <<decVars, wire, cb_now, cb_tim, cb_i, cb_calls,
                           cb_anchor>>
    /\ UNCHANGED cb_nsearch
    /\ rc_pc' = "idle" /\ rc_caller' = "" /\ rc_now' = 0 /\ rc_tim' = 0
    /\ rc_timeout' = 0 /\ rc_idx' = 0 /\ rc_out' = None /\ rc_ready' = FALSE
    /\ rc_open0' = FALSE /\ rc_opened' = FALSE /\ rc_data' = None
    /\ rc_fresh' = {} /\ probe_pre' = InitDec /\ probe_fed' = 0
    /\ plist' = <<>> /\ steady' = FALSE
    /\ UNCHANGED <<callVars, histVars, streamVars, clock, rsVars, ser_open,
                   narr, has_com, has_test, conf_timeout, portVars, cb_max,
                   cb_timeout, cb_conn, confVars>>

NextCtl ==
    \/ Tick
    \/ \E bs \in CtlSendable : PortReceives(bs)
    \/ Unplug
    \/ \E t \in Timeouts, m \in MaxLoops : CbStart(t, m)
    \/ CbIter
    \/ CbResume
    \/ RcProbe
    \/ RcSweepEnd
    \/ RcWake

SpecCtl == InitCtl /\ [][NextCtl]_vars

\* the search alone, called by the application; the controller is one
\* thread, so each of its steps is taken once it is due, and time passes
NextSearch ==
    \/ Tick
    \/ \E t \in ConnTimeouts, st \in BOOLEAN : RcCall(t, st)
    \/ RcProbe
    \/ RcSweepEnd
    \/ RcWake

SpecSearch ==
    /\ InitCtl /\ [][NextSearch]_vars
    /\ WF_vars(RcProbe) /\ WF_vars(RcSweepEnd) /\ WF_vars(RcWake)
    /\ WF_vars(Tick)

-----------------------------------------------------------------------------
(* SpecConf: construction of a VedirectController, init_settings and       *)
(* init_serial_test on the object built                                     *)

\* the constructor or setter is still waiting for its search to end
Pending == [kind |-> "pending", block |-> {}]

\* the descriptor of the test-suite, and descriptors lacking a field
PidTest == [typeTest |-> "value", key |-> sPID, value |-> s0x203]
NoValue == [typeTest |-> "value", key |-> sPID, value |-> <<>>]
NoKey == [typeTest |-> "value", key |-> <<>>, value |-> s0x203]
NoType == [typeTest |-> "", key |-> sPID, value |-> s0x203]

\* what init_serial_test is called with: None, a list, and mappings from a
\* test name to a descriptor (here the set of their descriptors)
TestArgs ==
    {NoTests, [t |-> "list", items |-> {}]}
        \cup {[t |-> "dict", items |-> i] :
                 i \in {{}, {PidTest}, {NoValue}, {NoType}, {PidTest, NoKey}}}

\* the serial_port arguments
PortArgs == {VePort, OtherPort, DeadPort, BadPath}

\* Ut.is_dict(x, not_null=True)
is_dict_not_null(a) == a.t = "dict" /\ a.items # {}

\* a descriptor carries typeTest, key and value
is_serial_test(d) == d.typeTest = "value" /\ d.key # <<>> /\ d.value # <<>>

\* SerialTestHelper(serial_test): with a descriptor lacking a field, the
\* constructor raises SettingInvalidException, or gives a helper without
\* tests, the case lines 104-110 of init_serial_test provide for
SerialTestHelper(a) ==
    IF \A d \in a.items : is_serial_test(d)
    THEN {[raised |-> FALSE, has |-> TRUE]}
    ELSE {[raised |-> TRUE, has |-> FALSE], [raised |-> FALSE, has |-> FALSE]}

\* an init_serial_test that takes any mapping, empty or not
init_serial_test_any_dict(a, had) ==
    IF a.t # "dict"
    THEN {[ret |-> Raise("SettingInvalid"), has |-> had]}
    ELSE {[ret |-> ReturnTrue, has |-> TRUE]}

\* VedirectController.init_serial_test, had telling whether the controller
\* has tests before the call: what the call gives and whether it has tests
\* after it
init_serial_test(a, had) ==
    IF ~is_dict_not_null(a)
    THEN {[ret |-> Raise("SettingInvalid"), has |-> had]}
    ELSE {IF h.raised THEN [ret |-> Raise("SettingInvalid"), has |-> had]
          ELSE IF ~h.has THEN [ret |-> Raise("SettingInvalid"), has |-> FALSE]
          ELSE [ret |-> ReturnTrue, has |-> TRUE] : h \in SerialTestHelper(a)}

\* SerialConnection.is_serial_conf on the arguments of init_serial_connection
is_serial_conf(p) == is_serial_port(p)

\* has_serial_test() called while Vedirect.__init__ runs: line 81 reads
\* self._ser_test, which line 76 assigns only after Vedirect.__init__
has_serial_test_in_init == Raise("AttributeError")

\* a connection object the controller drops is not closed by the controller:
\* its port is closed when the object is finalised, or stays open while the
\* object is kept alive
Dropped(keep) == IF ser_open /\ keep THEN stale \cup {cur_port} ELSE stale

InitConf ==
    /\ DecIs(InitDec)
    /\ wire = <<>>
    /\ pre = InitDec /\ arg = PyBytes(<<>>) /\ ret = None
    /\ HistInit /\ StreamIdle /\ ReadIdle /\ CtlIdle

\* VedirectController(serial_test=a, serial_port=p, timeout=ct): lines 71-77,
\* with Vedirect.__init__ (vedirect.py 58-72) calling the init_settings of
\* the controller (lines 150-159)
Construct(a, p, ct, keep) ==
    /\ life \in {"none", "dead"} /\ rc_pc = "idle" /\ cb_pc = "idle"
    /\ SetDec(InitDec) /\ wire' = <<>>
    /\ conf_timeout' = ct /\ ser_timeout' = ct /\ link' = TRUE
    /\ IF ~is_serial_conf(p)
       THEN /\ life' = "dead" /\ ser_open' = FALSE /\ has_test' = FALSE
            /\ cur_port' = "" /\ stale' = stale
            /\ op' = [name |-> "construct", port |-> p,
                      tests |-> a, had |-> FALSE,
                      out |-> Raise("SettingInvalid")]
       ELSE IF ~connect(p).open
       THEN /\ life' = "dead" /\ ser_open' = FALSE /\ has_test' = FALSE
            /\ cur_port' = "" /\ stale' = stale
            /\ op' = [name |-> "construct", port |-> p,
                      tests |-> a, had |-> FALSE,
                      out |-> has_serial_test_in_init]
       ELSE \E r \in init_serial_test(a, FALSE) :
            /\ has_test' = r.has
            /\ op' = [name |-> "construct", port |-> p,
                      tests |-> a, had |-> FALSE,
                      out |-> r.ret]
            /\ IF r.ret = ReturnTrue
               THEN /\ life' = "live" /\ ser_open' = TRUE /\ cur_port' = p
                    /\ stale' = stale
               ELSE /\ life' = "dead" /\ ser_open' = FALSE /\ cur_port' = ""
                    /\ stale' = IF keep THEN stale \cup {p} ELSE stale
    /\ UNCHANGED <<callVars, histVars, streamVars, clock, rsVars, narr,
                   plist, steady, has_com, cbVars, rcVars>>

\* init_serial_test(a) on the controller
InitSerialTest(a) ==
    /\ life = "live" /\ rc_pc = "idle" /\ cb_pc = "idle"
    /\ \E r \in init_serial_test(a, has_test) :
           /\ has_test' = r.has
           /\ op' = [name |-> "init_serial_test", port |-> "",
                     tests |-> a, had |-> has_serial_test,
                     out |-> r.ret]
    /\ UNCHANGED <<decVars, wire, callVars, histVars, streamVars, readVars,
                   plist, steady, has_com, conf_timeout, portVars, cbVars,
                   rcVars, life, stale>>

\* init_settings(serial_port=p, timeout=ct, wait_timeout=wt) on the
\* controller: lines 150-159 with init_serial_connection (vedirect.py
\* 187-209); st as in RcEnter
InitSettings(p, ct, wt, st, keep) ==
    /\ life = "live" /\ rc_pc = "idle" /\ cb_pc = "idle"
    /\ IF ~is_serial_conf(p)
       THEN /\ op' = [name |-> "init_settings", port |-> p,
                      tests |-> NoTests, had |-> has_serial_test,
                      out |-> Raise("SettingInvalid")]
            /\ UNCHANGED <<wire, ser_open, conf_timeout, portVars, stale,
                           plist, steady, rcVars>>
       ELSE /\ stale' = Dropped(keep)
            /\ conf_timeout' = ct /\ ser_timeout' = ct
            /\ cur_port' = p /\ link' = TRUE /\ wire' = <<>>
            /\ ser_open' = connect(p).open
            /\ IF connect(p).open
               THEN /\ op' = [name |-> "init_settings", port |-> p,
                              tests |-> NoTests, had |-> has_serial_test,
                              out |-> ReturnTrue]
                    /\ UNCHANGED <<plist, steady, rcVars>>
               ELSE /\ op' = [name |-> "init_settings", port |-> p,
                              tests |-> NoTests, had |-> has_serial_test,
                              out |-> Pending]
                    /\ RcEnter("settings", wt, st)
    /\ UNCHANGED <<decVars, callVars, histVars, streamVars, clock, rsVars,
                   narr, has_com, has_test, cbVars, life>>

\* the search made for init_settings has ended: lines 157-159
SettingsResume ==
    /\ rc_pc = "done" /\ rc_caller = "settings"
    /\ op' = [op EXCEPT !.out = rc_out]
    /\ rc_pc' = "idle" /\ rc_caller' = "" /\ rc_now' = 0 /\ rc_tim' = 0
    /\ rc_timeout' = 0 /\ rc_idx' = 0 /\ rc_out' = None /\ rc_ready' = FALSE
    /\ rc_open0' = FALSE /\ rc_opened' = FALSE /\ rc_data' = None
    /\ rc_fresh' = {} /\ probe_pre' = InitDec /\ probe_fed' = 0
    /\ plist' = <<>> /\ steady' = FALSE
    /\ UNCHANGED <<decVars, wire, callVars, histVars, streamVars, readVars,
                   has_com, has_test, conf_timeout, portVars, cbVars, life,
                   stale>>

NextConf ==
    \/ Tick
    \/ \E a \in TestArgs, p \in PortArgs, ct \in ConfTimeouts, keep \in BOOLEAN :
           Construct(a, p, ct, keep)
    \/ \E a \in TestArgs : InitSerialTest(a)
    \/ \E p \in PortArgs, ct \in ConfTimeouts, wt \in ConnTimeouts,
          st \in BOOLEAN, keep \in BOOLEAN : InitSettings(p, ct, wt, st, keep)
    \/ SettingsResume
    \/ RcProbe
    \/ RcSweepEnd
    \/ RcWake

SpecConf == InitConf /\ [][NextConf]_vars

-----------------------------------------------------------------------------
(* Properties of construction and of the setters *)

\* a mapping with at least one descriptor, each carrying its three fields
ValidTests(a) ==
    a.t = "dict" /\ a.items # {} /\ \A d \in a.items : is_serial_test(d)

\* the last call was name(...), and it has ended
Called(name) == op.name = name /\ op.out # Pending

\* C21: the construction of a controller on a well-formed port path that
\* cannot be opened, with valid serial tests, searches the ports with these
\* tests and ends with a controller connected to a port, or with Timeout or
\* Vedirect.
C21_ConstructionWaitsForPort ==
    (Called("construct") /\ op.port = DeadPort /\ ValidTests(op.tests)) =>
        \/ op.out = ReturnTrue /\ life = "live" /\ ser_open /\ has_serial_test
        \/ op.out \in {Raise("Timeout"), Raise("Vedirect")}

\* the kinds of error the controller hands to its caller
Surfaced == {"SettingInvalid", "InputRead", "Timeout", "Vedirect"}

\* C22: an error that the constructor, init_settings, init_serial_test, a
\* read or a search hands to the caller is SettingInvalid, InputRead,
\* Timeout or Vedirect, and no other.
C22_OnlyFourErrorKinds ==
    \A o \in {op.out, rc_out, cb_out, rs_out} :
        o.kind \in Surfaced \cup {"none", "block", "True", "pending"}

\* C24: init_serial_test raises SettingInvalid for an argument that is not
\* a non-empty mapping or that holds a descriptor lacking typeTest, key or
\* value; when it returns True the argument held valid tests only, at least
\* one, and has_serial_test holds.
C24_InitSerialTestValidates ==
    Called("init_serial_test") =>
        /\ ~ValidTests(op.tests) => op.out = Raise("SettingInvalid")
        /\ op.out = ReturnTrue => (ValidTests(op.tests) /\ has_serial_test)
        /\ op.out \in {ReturnTrue, Raise("SettingInvalid")}

\* a mapping with a valid descriptor and one without key was refused
C24_Witness ==
    /\ Called("init_serial_test") /\ op.tests.items = {PidTest, NoKey}
    /\ op.out = Raise("SettingInvalid")

OpenPorts == stale \cup (IF ser_open THEN {cur_port} ELSE {})

\* C29: at most one port is open at any time: a port is opened, in a search
\* or by init_serial_connection, only after the port open before is closed.
C29_OnePortOpen == Cardinality(OpenPorts) <= 1

-----------------------------------------------------------------------------
(* Properties of read_data_callback *)

\* the call has returned: True, or None after the controller was not ready
CbReturned == cb_pc = "done" /\ cb_out.kind \in {"none", "True"}

\* the call has ended with an exception
CbFailed == cb_pc = "done" /\ cb_out.kind \notin {"none", "True"}

\* the places of the calls callback_func(None) among the calls made
SentinelCalls == {i \in 1..Len(cb_calls) : cb_calls[i] = Sentinel}

\* the number of blocks handed to callback_func
BlocksDelivered == Len(cb_calls) - Cardinality(SentinelCalls)

\* C11: in read_data_callback no transport error and no InputRead raised by
\* a byte read reaches the caller: each of them is answered by a search, and
\* only the failure of the search (Timeout, Vedirect) ends the call.
C11_ReadErrorsAnsweredBySearch ==
    cb_pc = "done" => cb_out.kind \notin CaughtErrors

\* C12: when read_data_callback returns, callback_func(None) was called
\* exactly once, as the last call; when it ends with an exception,
\* callback_func(None) was not called.
C12_SentinelEndsNormalExit ==
    /\ CbReturned => SentinelCalls = {Len(cb_calls)} /\ cb_calls # <<>>
    /\ CbFailed => SentinelCalls = {}

\* C13: with max_loops = n, 0 included, read_data_callback returns True
\* exactly when n blocks were delivered: callback_func got n blocks when the
\* call returns True, and never got more than n.
C13_ReturnsAtMaxLoops ==
    cb_max.set =>
        /\ (cb_pc = "done" /\ cb_out = ReturnTrue) => BlocksDelivered = cb_max.n
        /\ BlocksDelivered <= cb_max.n

\* C14: a turn of the loop that ends without a block, the time since the last
\* block, the entry or the last successful search having reached the timeout,
\* ends the call with Timeout, and no search is started for it.
C14_SilentTurnPastTimeoutRaises ==
    (cb_it.kind = "noblock" /\ cb_it.el >= cb_timeout) =>
        (cb_pc = "done" /\ cb_out = Raise("Timeout") /\ rc_pc = "idle")

C14_Witness ==
    /\ cb_it.kind = "noblock" /\ cb_it.el >= cb_timeout
    /\ cb_pc = "done" /\ cb_out = Raise("Timeout")
    /\ wire # <<>>

-----------------------------------------------------------------------------
(* Properties of wait_or_search_serial_connection *)

\* the search has returned True
SearchFound == rc_pc = "done" /\ rc_out = ReturnTrue

\* C15: the block handed to the serial tests holds only pairs decoded from
\* bytes read on the probed port since it was opened, and the search returns
\* True only when such a block passes every test.
C15_ProbeSeesOnlyCandidateBytes ==
    /\ rc_data.kind = "block" => rc_data.block \subseteq rc_fresh
    /\ SearchFound => run_serial_tests(Block(rc_fresh))

\* C16: when the transport is not open and a listed port is valid, opens and
\* sends matching frames without a pause, the search ends by returning True
\* with the transport attached to that port.
C16_SearchFindsSteadyPort ==
    (rc_pc = "sweep" /\ steady /\ ~rc_open0)
        ~> (SearchFound /\ ser_open /\ cur_port = VePort)

\* C17: when the search returns True the decoder is in its initial state and
\* the read timeout of the transport is the configured one, not the 0 used
\* for probing.
C17_FoundMeansResetAndTimeoutRestored ==
    SearchFound => (Dec = InitDec /\ ser_timeout = conf_timeout)

C17_Witness ==
    /\ SearchFound /\ probe_pre # InitDec /\ probe_fed > 0
    /\ Dec = InitDec /\ ser_timeout = conf_timeout /\ conf_timeout # 0

\* C18: the decoder is reset before the first byte of a newly opened port is
\* fed to it: no byte of the port meets decoder state left by another port.
C18_ResetBeforeFirstProbeByte ==
    (rc_opened /\ probe_fed > 0) => probe_pre = InitDec

\* C19: when the search ends with Timeout the transport is closed, whatever
\* the list of ports was.
C19_TimeoutLeavesTransportClosed ==
    (rc_pc = "done" /\ rc_out = Raise("Timeout")) => ~ser_open

\* C20: a search called on a controller without serial tests ends at once
\* with Vedirect: no port was opened or probed, no time was spent waiting and
\* the transport is as it was.
C20_NoTestsNoSearch ==
    (rc_pc = "done" /\ ~(has_com /\ has_test)) =>
        /\ rc_out = Raise("Vedirect")
        /\ ~rc_opened /\ rc_tim = rc_now /\ clock = rc_now
        /\ ser_open = rc_open0 /\ cur_port = VePort /\ plist = <<>>

C20_Witness ==
    /\ rc_pc = "done" /\ ~has_test /\ rc_open0
    /\ rc_out = Raise("Vedirect")

\* C28: read_data_callback entered with serial tests configured and the
\* transport not open starts a search: it does not end without one.
C28_ClosedAtEntryStartsSearch ==
    (cb_pc = "done" /\ has_serial_test /\ ~ser_open) => cb_nsearch > 0

\* C30: the search applies the rule of is_timeout: after a failed sweep it
\* sleeps only while the time since entry is below the timeout, it starts a
\* further sweep only while it is below, and it raises Timeout only when the
\* time since entry has reached the timeout.
C30_SearchDeadlineInclusive ==
    /\ rc_pc = "sleep" => rc_tim - rc_now < rc_timeout
    /\ (rc_pc = "sweep" /\ rc_tim > rc_now) => rc_tim - rc_now < rc_timeout
    /\ (rc_pc = "done" /\ rc_out = Raise("Timeout")) =>
           rc_tim - rc_now >= rc_timeout

====
